---------------------------- MODULE Spec2Model ----------------------------
(***************************************************************************)
(* Model of train_eval.py, the homograph disambiguation lab: the context   *)
(* feature extractor (extract_features, _token_feature), the corpus pass   *)
(* (extract_features_file) and the evaluation driver (main).               *)
(*                                                                         *)
(* Text is a sequence of one-character strings.  Python's 0-based indices  *)
(* are kept: the token at Python index i is tokens[i + 1].                 *)
(***************************************************************************)
EXTENDS Integers, Sequences, FiniteSets, TLC

(***************************************************************************)
(* Bounds of the model.                                                    *)
(***************************************************************************)
MaxSentLen == 4
MaxFiles == 2
MaxRows == 2
MaxAggFiles == 3
MaxAggSize == 3

(***************************************************************************)
(* Characters.  EAcute stands for U+00E9, a lowercase letter whose UTF-8   *)
(* encoding takes two bytes (C3 A9); every other character is ASCII and    *)
(* is its own byte.                                                        *)
(***************************************************************************)
EAcute == "e-acute"
UpperChars == {"R", "E", "C", "O", "D"}
LowerChars == {"r", "e", "c", "o", "d", EAcute}
NumericChars == {"1"}
GenChars == {" ", "R", EAcute, "1", "_", "^"}

\* str.casefold, character by character
FoldChar(c) ==
    CASE c = "R" -> "r"
      [] c = "E" -> "e"
      [] c = "C" -> "c"
      [] c = "O" -> "o"
      [] c = "D" -> "d"
      [] OTHER -> c

CaseFold(s) == [i \in 1..Len(s) |-> FoldChar(s[i])]

\* str.isnumeric: at least one character and every character numeric
IsNumeric(s) == Len(s) > 0 /\ \A i \in 1..Len(s) : s[i] \in NumericChars

\* str.count(c)
Count(s, c) == Cardinality({i \in 1..Len(s) : s[i] = c})

\* str.replace(c, "")
RECURSIVE Remove(_, _)
Remove(s, c) ==
    IF s = <<>> THEN <<>>
    ELSE IF Head(s) = c THEN Remove(Tail(s), c)
    ELSE <<Head(s)>> \o Remove(Tail(s), c)

\* str.isupper: no lowercase character and at least one cased character
IsUpper(s) ==
    /\ \A i \in 1..Len(s) : s[i] \notin LowerChars
    /\ \E i \in 1..Len(s) : s[i] \in UpperChars

\* str.islower: no uppercase character and at least one cased character
IsLower(s) ==
    /\ \A i \in 1..Len(s) : s[i] \notin UpperChars
    /\ \E i \in 1..Len(s) : s[i] \in LowerChars

\* str.istitle: an uppercase character only after an uncased one (or at the
\* start), a lowercase character only after a cased one, and at least one
\* cased character
IsTitle(s) ==
    /\ \E i \in 1..Len(s) : s[i] \in UpperChars \cup LowerChars
    /\ \A i \in 1..Len(s) :
         LET prevCased == i > 1 /\ s[i - 1] \in UpperChars \cup LowerChars
         IN  /\ s[i] \in UpperChars => ~prevCased
             /\ s[i] \in LowerChars => prevCased

(***************************************************************************)
(* UTF-8.                                                                  *)
(***************************************************************************)
\* str.encode("utf8")
RECURSIVE Encode(_)
Encode(s) ==
    IF s = <<>> THEN <<>>
    ELSE (IF Head(s) = EAcute THEN <<"C3", "A9">> ELSE <<Head(s)>>)
         \o Encode(Tail(s))

\* bytes.decode("utf8"); the result ends with "ERR" where Python raises
\* UnicodeDecodeError (a lead byte without its continuation byte, or a
\* continuation byte on its own)
RECURSIVE Decode(_)
Decode(b) ==
    IF b = <<>> THEN <<>>
    ELSE IF Head(b) = "C3"
         THEN IF Len(b) >= 2 /\ b[2] = "A9"
              THEN <<EAcute>> \o Decode(Tail(Tail(b)))
              ELSE <<"ERR">>
    ELSE IF Head(b) = "A9" THEN <<"ERR">>
    ELSE <<Head(b)>> \o Decode(Tail(b))

DecodeFails(b) == LET s == Decode(b) IN s # <<>> /\ s[Len(s)] = "ERR"

\* "^" inserted on either side of the bytes start..end of the sentence
MarkedBytes(sentence, start, end) ==
    LET sentence_b == Encode(sentence)
        left == SubSeq(sentence_b, 1, start)
        target == <<"^">> \o SubSeq(sentence_b, start + 1, end) \o <<"^">>
        right == SubSeq(sentence_b, end + 1, Len(sentence_b))
    IN  left \o target \o right

\* nltk.word_tokenize on text made of letters, digits, "_", "^" and spaces:
\* the maximal runs of characters other than the space
RECURSIVE SplitFrom(_, _)
SplitFrom(s, cur) ==
    IF s = <<>> THEN (IF cur = <<>> THEN <<>> ELSE <<cur>>)
    ELSE IF Head(s) = " "
         THEN (IF cur = <<>> THEN <<>> ELSE <<cur>>) \o SplitFrom(Tail(s), <<>>)
    ELSE SplitFrom(Tail(s), Append(cur, Head(s)))

WordTokenize(s) == SplitFrom(s, <<>>)

(***************************************************************************)
(* _token_feature and extract_features.                                    *)
(***************************************************************************)
LeftSentinel == <<"[", "$", "]">>
RightSentinel == <<"[", "^", "]">>
NumericSentinel == <<"[", "N", "U", "M", "E", "R", "I", "C", "]">>

TokenFeatureLeftEdge(tokens, index) ==
    IF index <= 0 THEN LeftSentinel
    ELSE IF index >= Len(tokens) THEN RightSentinel
    ELSE LET token == tokens[index + 1]
         IN  IF IsNumeric(token) THEN NumericSentinel ELSE CaseFold(token)

TokenFeature(tokens, index) ==
    IF index < 0 THEN LeftSentinel
    ELSE IF index >= Len(tokens) THEN RightSentinel
    ELSE LET token == tokens[index + 1]
         IN  IF IsNumeric(token) THEN NumericSentinel ELSE CaseFold(token)

\* the loop of lines 47-51: the first token with exactly two "^", or -1
FindTarget(tokens) ==
    LET hits == {i \in 0..(Len(tokens) - 1) : Count(tokens[i + 1], "^") = 2}
    IN  IF hits = {} THEN -1
        ELSE CHOOSE i \in hits : \A j \in hits : i <= j

Join(a, b) == a \o <<"^">> \o b

PositionalFeatures(tokens, t) ==
    ("t-1" :> TokenFeature(tokens, t - 1))
    @@ ("t-2" :> TokenFeature(tokens, t - 2))
    @@ ("t+1" :> TokenFeature(tokens, t + 1))
    @@ ("t+2" :> TokenFeature(tokens, t + 2))

CombinedFeaturesJoinNext(features) ==
    features
    @@ ("t-2^t+1" :> Join(features["t-2"], features["t+1"]))
    @@ ("t+1^t+2" :> Join(features["t+1"], features["t+2"]))
    @@ ("t-1^t+1" :> Join(features["t-1"], features["t+1"]))

CombinedFeatures(features) ==
    features
    @@ ("t-2^t+1" :> Join(features["t-2"], features["t-2"]))
    @@ ("t+1^t+2" :> Join(features["t+1"], features["t+2"]))
    @@ ("t-1^t+1" :> Join(features["t-1"], features["t+1"]))

CapFeatureNoElse(features, target) ==
    IF IsUpper(target) THEN features @@ ("cap(t)" :> "upper")
    ELSE IF IsLower(target) THEN features @@ ("cap(t)" :> "lower")
    ELSE IF IsTitle(target) THEN features @@ ("cap(t)" :> "title")
    ELSE features

CapFeature(features, target) ==
    IF IsUpper(target) THEN features @@ ("cap(t)" :> "upper")
    ELSE IF IsLower(target) THEN features @@ ("cap(t)" :> "lower")
    ELSE IF IsTitle(target) THEN features @@ ("cap(t)" :> "title")
    ELSE features @@ ("cap(t)" :> "na")

NoFeatures == <<>>

\* The outcome of one call: "ok" with the feature vector returned, "decode"
\* when line 43 raises UnicodeDecodeError, "assert" when the assertion of
\* line 52 fails.  tokens and t are the call's locals, kept for the record.
ExtractFeatures(sentence, start, end) ==
    LET marked_b == MarkedBytes(sentence, start, end)
    IN  IF DecodeFails(marked_b)
        THEN [status |-> "decode", tokens |-> <<>>, t |-> -1,
              features |-> NoFeatures]
        ELSE LET tokens == WordTokenize(Decode(marked_b))
                 t == FindTarget(tokens)
             IN  IF t = -1
                 THEN [status |-> "assert", tokens |-> tokens, t |-> t,
                       features |-> NoFeatures]
                 ELSE LET target == Remove(tokens[t + 1], "_")
                      IN  [status |-> "ok", tokens |-> tokens, t |-> t,
                           features |->
                               CapFeature(
                                   CombinedFeatures(
                                       PositionalFeatures(tokens, t)),
                                   target)]

(***************************************************************************)
(* Corpus rows.                                                            *)
(***************************************************************************)
Row(s, a, b) == [sentence |-> s, start |-> a, end |-> b]

Text(n) == [1..n -> GenChars]

\* rows longer than MaxSentLen: the surface forms RECORD, record, Record and
\* ReCoRd, a target with two context tokens on each side, targets at the
\* first and last index of a five-token sentence
ExampleRows ==
    { Row(<<"R", "E", "C", "O", "R", "D">>, 0, 6),
      Row(<<"r", "e", "c", "o", "r", "d">>, 0, 6),
      Row(<<"R", "e", "c", "o", "r", "d">>, 0, 6),
      Row(<<"R", "e", "C", "o", "R", "d">>, 0, 6),
      Row(<<"R", "e", "c", "o", "r", "d", "e", "d">>, 0, 6),
      Row(<<"R", "e", "_", "c", "o", "r", "d">>, 0, 7),
      Row(<<"D", " ", "1", " ", "r", "e", "d", " ", "C", "o", " ", "e">>, 4, 7),
      Row(<<"D", " ", "1", " ", "r", "e", "d", " ", "C", "o", " ", "e">>, 0, 1),
      Row(<<"D", " ", "1", " ", "r", "e", "d", " ", "C", "o", " ", "e">>, 11, 12) }

NoRow == Row(<<>>, 0, 0)
Pending == [status |-> "pending", tokens |-> <<>>, t |-> -1,
            features |-> NoFeatures]

(***************************************************************************)
(* extract_features_file: the rows of one TSV file, in order.  The first   *)
(* row whose extraction raises ends the pass with that exception.          *)
(***************************************************************************)
Labels == {"w1", "w2"}

CorpusRow(s, a, b, w) == [sentence |-> s, start |-> a, end |-> b, wordid |-> w]

\* the rows the corpus files of the driver are made of: two rows whose
\* target is one token, one whose span covers two tokens, one whose span
\* ends inside a two-byte character
SampleRows ==
    { CorpusRow(<<"R", " ", EAcute>>, 0, 1, "w1"),
      CorpusRow(<<"1", " ", "R">>, 2, 3, "w2"),
      CorpusRow(<<"R", " ", "R">>, 0, 3, "w1"),
      CorpusRow(<<EAcute>>, 0, 1, "w2") }

FileContents == UNION {[1..n -> SampleRows] : n \in 0..MaxRows}

\* extract_features on each row of the corpus
RowResult == [r \in SampleRows |-> ExtractFeatures(r.sentence, r.start, r.end)]

ExtractFeaturesFile(rows) ==
    LET results == [i \in 1..Len(rows) |-> RowResult[rows[i]]]
        bad == {i \in 1..Len(rows) : results[i].status # "ok"}
    IN  IF bad # {}
        THEN [status |-> results[CHOOSE i \in bad : \A j \in bad : i <= j].status,
              features |-> <<>>, labels |-> <<>>]
        ELSE [status |-> "ok",
              features |-> [i \in 1..Len(rows) |-> results[i].features],
              labels |-> [i \in 1..Len(rows) |-> rows[i].wordid]]

(***************************************************************************)
(* The vectorizer and the classifier are external; an instance is known    *)
(* by the loop iteration that constructed it and the file it was fitted    *)
(* on (0: not fitted).  A transformed matrix is known by its number of     *)
(* rows and the instance that produced it.                                 *)
(***************************************************************************)
NewVectorizerShared(f) == [born |-> 1, fittedOn |-> 0]

NewVectorizer(f) == [born |-> f, fittedOn |-> 0]

NewModel(f) == [born |-> f, fittedOn |-> 0]

Fitted(instance, f) == [instance EXCEPT !.fittedOn = f]

Matrix(v, n) == [by |-> v, n |-> n]

NoInstance == [born |-> 0, fittedOn |-> 0]

\* model.predict returns a label per row; the driver does not rely on it
\* (line 114), so any sequence of labels of any length is allowed
Predictions == UNION {[1..n -> Labels] : n \in 0..MaxRows}

\* sum(y == yhat) for sequences of equal length
NumCorrectAnyPair(yv, yh) ==
    Cardinality({p \in (1..Len(yv)) \X (1..Len(yh)) : yv[p[1]] = yh[p[2]]})

NumCorrect(yv, yh) == Cardinality({i \in 1..Len(yv) : yv[i] = yh[i]})

(***************************************************************************)
(* Accuracies.  A quotient a / b is kept as the pair <<a, b>>, b > 0, and  *)
(* compared by cross-multiplication; the rounding error of the floating    *)
(* point division is not modelled.                                         *)
(***************************************************************************)
RECURSIVE SumSeq(_)
SumSeq(s) == IF s = <<>> THEN 0 ELSE Head(s) + SumSeq(Tail(s))

FracAdd(p, q) == <<p[1] * q[2] + q[1] * p[2], p[2] * q[2]>>

FracEq(p, q) == p[1] * q[2] = q[1] * p[2]

RECURSIVE FracSum(_)
FracSum(fs) == IF fs = <<>> THEN <<0, 1>> ELSE FracAdd(Head(fs), FracSum(Tail(fs)))

MicroAccuracyLastFile(c, s) == <<c[Len(c)], s[Len(s)]>>

\* sum(correct) / sum(size)
MicroAccuracy(c, s) == <<SumSeq(c), SumSeq(s)>>

MacroAccuracyPooled(c, s) == <<SumSeq(c), SumSeq(s)>>

\* statistics.mean(c / s for (c, s) in zip(correct, size))
MacroAccuracy(c, s) ==
    LET total == FracSum([i \in 1..Len(c) |-> <<c[i], s[i]>>])
    IN  <<total[1], total[2] * Len(c)>>

\* "%.4f": the number of ten-thousandths nearest to q, ties to even
Format4(q) ==
    LET n == q[1] * 10000
        fl == n \div q[2]
        twice == 2 * (n % q[2])
    IN  IF twice < q[2] THEN fl
        ELSE IF twice > q[2] THEN fl + 1
        ELSE IF fl % 2 = 0 THEN fl ELSE fl + 1

LogLine(label, q) == [label |-> label, value |-> q, text |-> Format4(q)]

(***************************************************************************)
(* State.  row, ext: one call of extract_features.  The rest: main.        *)
(***************************************************************************)
VARIABLES row, ext,
          pc, numFiles, fileIdx, vectorizer, model, feature_vectors, y, x,
          yhat, correct, size, reported, err, evalLog

extractVars == <<row, ext>>
mainVars == <<pc, numFiles, fileIdx, vectorizer, model, feature_vectors, y, x,
              yhat, correct, size, reported, err, evalLog>>
vars == <<row, ext, pc, numFiles, fileIdx, vectorizer, model, feature_vectors,
          y, x, yhat, correct, size, reported, err, evalLog>>

\* main before its first statement, over numFiles train files
MainStart(n) ==
    /\ pc = "loop"
    /\ numFiles = n
    /\ fileIdx = 0
    /\ vectorizer = NoInstance
    /\ model = NoInstance
    /\ feature_vectors = <<>>
    /\ y = <<>>
    /\ x = Matrix(NoInstance, 0)
    /\ yhat = <<>>
    /\ correct = <<>>
    /\ size = <<>>
    /\ reported = <<>>
    /\ err = "none"
    /\ evalLog = <<>>

NoCall == row = NoRow /\ ext = Pending

(***************************************************************************)
(* One call of extract_features on a row.                                  *)
(***************************************************************************)
\* a sentence of at most MaxSentLen characters with a byte span
\* 0 <= start < end <= byte length, or one of the example rows
InitExtract ==
    /\ \/ \E n \in 1..MaxSentLen : \E s \in Text(n) :
            \E a \in 0..Len(Encode(s)) : \E b \in (a + 1)..Len(Encode(s)) :
                row = Row(s, a, b)
       \/ row \in ExampleRows
    /\ ext = Pending
    /\ MainStart(0)

Extract ==
    /\ ext.status = "pending"
    /\ row # NoRow
    /\ ext' = ExtractFeatures(row.sentence, row.start, row.end)
    /\ UNCHANGED row
    /\ UNCHANGED mainVars

NextExtract == Extract

SpecExtract == InitExtract /\ [][NextExtract]_vars

(***************************************************************************)
(* main.                                                                   *)
(***************************************************************************)
\* an uncaught exception ends the run
RaiseAndSkip(kind) == err' = kind /\ pc' = "loop"

Raise(kind) == err' = kind /\ pc' = "aborted"

\* lines 96-99: the next train file and its vectorizer, or the end of the loop
LoopNext ==
    /\ pc = "loop"
    /\ IF fileIdx < numFiles
       THEN /\ fileIdx' = fileIdx + 1
            /\ vectorizer' = NewVectorizer(fileIdx + 1)
            /\ pc' = "train"
       ELSE /\ pc' = "micro"
            /\ UNCHANGED <<fileIdx, vectorizer>>
    /\ UNCHANGED <<numFiles, model, feature_vectors, y, x, yhat, correct, size,
                   reported, err, evalLog>>
    /\ UNCHANGED extractVars

\* lines 101-108: the train split is extracted, the vectorizer fitted on it,
\* a classifier constructed and fitted.  DictVectorizer raises ValueError
\* ("Sample sequence X is empty.") on an empty list of feature vectors.
Train ==
    /\ pc = "train"
    /\ \E rows \in FileContents :
         LET r == ExtractFeaturesFile(rows)
         IN  IF r.status # "ok"
             THEN /\ Raise(r.status)
                  /\ UNCHANGED <<feature_vectors, y, vectorizer, x, model>>
             ELSE /\ feature_vectors' = r.features
                  /\ y' = r.labels
                  /\ IF r.features = <<>>
                     THEN /\ Raise("empty")
                          /\ UNCHANGED <<vectorizer, x, model>>
                     ELSE /\ vectorizer' = Fitted(vectorizer, fileIdx)
                          /\ x' = Matrix(vectorizer', Len(r.features))
                          /\ model' = Fitted(NewModel(fileIdx), fileIdx)
                          /\ pc' = "eval"
                          /\ UNCHANGED err
    /\ UNCHANGED <<numFiles, fileIdx, yhat, correct, size, reported, evalLog>>
    /\ UNCHANGED extractVars

\* lines 109-111: the eval split is extracted
Eval ==
    /\ pc = "eval"
    /\ \E rows \in FileContents :
         LET r == ExtractFeaturesFile(rows)
         IN  IF r.status # "ok"
             THEN /\ Raise(r.status)
                  /\ UNCHANGED <<feature_vectors, y>>
             ELSE /\ feature_vectors' = r.features
                  /\ y' = r.labels
                  /\ pc' = "predict"
                  /\ UNCHANGED err
    /\ UNCHANGED <<numFiles, fileIdx, vectorizer, model, x, yhat, correct,
                   size, reported, evalLog>>
    /\ UNCHANGED extractVars

\* lines 112-113: the eval feature vectors are transformed by the vectorizer
\* and labelled by the classifier; evalLog records which instances did it.
\* DictVectorizer.transform raises ValueError on an empty list, as in Train.
Predict ==
    /\ pc = "predict"
    /\ IF feature_vectors = <<>>
       THEN /\ Raise("empty")
            /\ UNCHANGED <<x, yhat, evalLog>>
       ELSE /\ x' = Matrix(vectorizer, Len(feature_vectors))
            /\ yhat' \in Predictions
            /\ evalLog' = Append(evalLog,
                   [file |-> fileIdx, vectorizer |-> vectorizer,
                    model |-> model])
            /\ pc' = "score"
            /\ UNCHANGED err
    /\ UNCHANGED <<numFiles, fileIdx, vectorizer, model, feature_vectors, y,
                   correct, size, reported>>
    /\ UNCHANGED extractVars

\* lines 114-116
Score ==
    /\ pc = "score"
    /\ IF Len(y) # Len(yhat)
       THEN /\ Raise("mismatch")
            /\ UNCHANGED <<correct, size>>
       ELSE /\ correct' = Append(correct, NumCorrect(y, yhat))
            /\ size' = Append(size, Len(y))
            /\ pc' = "loop"
            /\ UNCHANGED err
    /\ UNCHANGED <<numFiles, fileIdx, vectorizer, model, feature_vectors, y, x,
                   yhat, reported, evalLog>>
    /\ UNCHANGED extractVars

\* line 118; the division raises ZeroDivisionError when sum(size) is 0
ReportMicro ==
    /\ pc = "micro"
    /\ IF SumSeq(size) = 0
       THEN /\ Raise("zerodiv")
            /\ UNCHANGED reported
       ELSE /\ reported' = Append(reported,
                   LogLine("Micro-average accuracy", MicroAccuracy(correct, size)))
            /\ pc' = "macro"
            /\ UNCHANGED err
    /\ UNCHANGED <<numFiles, fileIdx, vectorizer, model, feature_vectors, y, x,
                   yhat, correct, size, evalLog>>
    /\ UNCHANGED extractVars

\* lines 119-120; a file of size 0 makes c / s raise ZeroDivisionError
ReportMacro ==
    /\ pc = "macro"
    /\ IF \E i \in 1..Len(size) : size[i] = 0
       THEN /\ Raise("zerodiv")
            /\ UNCHANGED reported
       ELSE /\ reported' = Append(reported,
                   LogLine("Macro-average accuracy", MacroAccuracy(correct, size)))
            /\ pc' = "done"
            /\ UNCHANGED err
    /\ UNCHANGED <<numFiles, fileIdx, vectorizer, model, feature_vectors, y, x,
                   yhat, correct, size, evalLog>>
    /\ UNCHANGED extractVars

Init == NoCall /\ \E n \in 0..MaxFiles : MainStart(n)

Next == LoopNext \/ Train \/ Eval \/ Predict \/ Score \/ ReportMicro \/ ReportMacro

Spec == Init /\ [][Next]_vars

(***************************************************************************)
(* The accuracy lines alone: main at line 118, the loop over the files     *)
(* finished with any per-file results of at most MaxAggFiles files of at   *)
(* most MaxAggSize eval rows each, or with the results (8, 10), (1, 2).    *)
(***************************************************************************)
FileResults == {p \in (0..MaxAggSize) \X (1..MaxAggSize) : p[1] <= p[2]}

InitAgg ==
    /\ NoCall
    /\ \/ \E n \in 0..MaxAggFiles : \E rs \in [1..n -> FileResults] :
            /\ correct = [i \in 1..n |-> rs[i][1]]
            /\ size = [i \in 1..n |-> rs[i][2]]
       \/ correct = <<8, 1>> /\ size = <<10, 2>>
    /\ pc = "micro"
    /\ numFiles = Len(size)
    /\ fileIdx = Len(size)
    /\ vectorizer = NoInstance
    /\ model = NoInstance
    /\ feature_vectors = <<>>
    /\ y = <<>>
    /\ x = Matrix(NoInstance, 0)
    /\ yhat = <<>>
    /\ reported = <<>>
    /\ err = "none"
    /\ evalLog = <<>>

NextAgg == ReportMicro \/ ReportMacro

SpecAgg == InitAgg /\ [][NextAgg]_vars

(***************************************************************************)
(* Properties of extract_features (checked under SpecExtract).             *)
(***************************************************************************)
Returned == ext.status = "ok"

\* Python indices of the tokens with exactly two "^"
TwoCaretTokens ==
    {i \in 0..(Len(ext.tokens) - 1) : Count(ext.tokens[i + 1], "^") = 2}

\* C1: once the sentence is marked and tokenized, extraction returns a
\* feature vector if and only if exactly one token holds exactly two "^",
\* and that token is the target; with no such token or several, it fails.
C1_UniqueTargetOrFailure ==
    ext.status \in {"ok", "assert"} =>
        /\ Returned <=> Cardinality(TwoCaretTokens) = 1
        /\ Returned => TwoCaretTokens = {ext.t}

FeatureKeys ==
    {"t-1", "t-2", "t+1", "t+2", "t-2^t+1", "t+1^t+2", "t-1^t+1", "cap(t)"}

\* C2: every feature vector returned has exactly the eight fixed keys.
C2_FixedKeySet == Returned => DOMAIN ext.features = FeatureKeys

\* a vector whose target is none of upper, lower, title
C2_Witness ==
    /\ Returned
    /\ "cap(t)" \in DOMAIN ext.features
    /\ ext.features["cap(t)"] = "na"

PositionKey(k) ==
    CASE k = -2 -> "t-2" [] k = -1 -> "t-1" [] k = 1 -> "t+1" [] k = 2 -> "t+2"

\* C3: each of t-2, t-1, t+1, t+2 is "[$]" left of the sentence, "[^]"
\* right of it, "[NUMERIC]" on a token of numeric characters only, and the
\* case-folded token otherwise; a target at index 0 has t-1 = t-2 = "[$]",
\* a target at the last index has t+1 = t+2 = "[^]".
C3_PositionalValues ==
    Returned =>
        /\ \A k \in {-2, -1, 1, 2} :
             LET i == ext.t + k
                 v == ext.features[PositionKey(k)]
             IN  /\ i < 0 => v = <<"[", "$", "]">>
                 /\ i >= Len(ext.tokens) => v = <<"[", "^", "]">>
                 /\ (0 <= i /\ i < Len(ext.tokens)) =>
                      LET tok == ext.tokens[i + 1]
                      IN  IF \A j \in 1..Len(tok) : tok[j] \in NumericChars
                          THEN v = <<"[", "N", "U", "M", "E", "R", "I", "C", "]">>
                          ELSE /\ Len(v) = Len(tok)
                               /\ \A j \in 1..Len(tok) : v[j] = FoldChar(tok[j])
        /\ ext.t = 0 =>
             /\ ext.features["t-1"] = <<"[", "$", "]">>
             /\ ext.features["t-2"] = <<"[", "$", "]">>
        /\ ext.t = Len(ext.tokens) - 1 =>
             /\ ext.features["t+1"] = <<"[", "^", "]">>
             /\ ext.features["t+2"] = <<"[", "^", "]">>

\* the target in the middle of five tokens: a letter two to the left, a
\* number to the left, a capitalised word to the right
C3_Witness ==
    /\ Returned
    /\ Len(ext.tokens) = 5
    /\ ext.t = 2
    /\ ext.features["t-2"] = <<"d">>
    /\ ext.features["t-1"] = NumericSentinel
    /\ ext.features["t+1"] = <<"c", "o">>
    /\ ext.features["t+2"] = <<"e">>

\* the capitalization class of a surface form
CapClass(w) ==
    IF IsUpper(w) THEN "upper"
    ELSE IF IsLower(w) THEN "lower"
    ELSE IF IsTitle(w) THEN "title"
    ELSE "na"

\* the target token without its delimiters and underscores
CleanSurface == Remove(Remove(ext.tokens[ext.t + 1], "^"), "_")

\* C4: cap(t) is the capitalization class of the clean target surface form
\* (delimiters and underscores removed), one of upper, lower, title, na.
C4_CapOfCleanSurface ==
    Returned =>
        /\ ext.features["cap(t)"] \in {"upper", "lower", "title", "na"}
        /\ ext.features["cap(t)"] = CapClass(CleanSurface)

\* C10: t+1^t+2 is t+1 and t+2 joined by "^", t-1^t+1 is t-1 and t+1 joined
\* by "^", and t-2^t+1 is t-2 joined with t-2 itself.
C10_CombinedValues ==
    Returned =>
        LET f == ext.features
        IN  /\ f["t+1^t+2"] = f["t+1"] \o <<"^">> \o f["t+2"]
            /\ f["t-1^t+1"] = f["t-1"] \o <<"^">> \o f["t+1"]
            /\ f["t-2^t+1"] = f["t-2"] \o <<"^">> \o f["t-2"]

\* tokens at t-2 and t+1 that differ, so that the join shows which was used
C10_Witness ==
    /\ Returned
    /\ ext.t - 2 >= 0
    /\ ext.t + 1 < Len(ext.tokens)
    /\ ext.features["t-2"] # ext.features["t+1"]
    /\ ext.features["t-2^t+1"] # ext.features["t-2"] \o <<"^">> \o ext.features["t+1"]

(***************************************************************************)
(* Properties of the accuracy lines (checked under SpecAgg).               *)
(***************************************************************************)
RECURSIVE Product(_)
Product(s) == IF s = <<>> THEN 1 ELSE Head(s) * Product(Tail(s))

\* sum of correct[i] / size[i], times the product of the sizes
ScaledRatioSum ==
    SumSeq([i \in 1..Len(size) |-> correct[i] * (Product(size) \div size[i])])

\* C5: the micro line reports sum(correct) / sum(size) and the macro line
\* the mean of the per-file ratios correct / size, over the recorded
\* per-file results; for (8, 10), (1, 2) these are 9/12 and 13/20.
C5_ReportedAccuracies ==
    /\ pc = "done" => Len(reported) = 2
    /\ Len(reported) >= 1 =>
         /\ reported[1].label = "Micro-average accuracy"
         /\ reported[1].value[1] * SumSeq(size)
              = SumSeq(correct) * reported[1].value[2]
    /\ Len(reported) >= 2 =>
         /\ reported[2].label = "Macro-average accuracy"
         /\ reported[2].value[1] * Len(size) * Product(size)
              = ScaledRatioSum * reported[2].value[2]
    /\ (pc = "done" /\ correct = <<8, 1>> /\ size = <<10, 2>>) =>
         /\ reported[1].value[1] * 12 = 9 * reported[1].value[2]
         /\ reported[2].value[1] * 20 = 13 * reported[2].value[2]
         /\ reported[1].text = 7500
         /\ reported[2].text = 6500

C5_Witness == pc = "done" /\ correct = <<8, 1>> /\ size = <<10, 2>>

SizesDiffer == \E i, j \in 1..Len(size) : size[i] # size[j]

MicroEqualsMacro ==
    reported[1].value[1] * reported[2].value[2]
        = reported[2].value[1] * reported[1].value[2]

\* C6 as stated: whenever the file sizes are not all equal, the micro and
\* the macro accuracy differ.
C6_DifferWheneverSizesDiffer ==
    (pc = "done" /\ SizesDiffer) => ~MicroEqualsMacro

\* sum over the files of (n * size[i] - sum(size)) * correct[i] / size[i],
\* times the product of the sizes
SizeAccuracyCovariance ==
    SumSeq([i \in 1..Len(size) |->
               (Len(size) * size[i] - SumSeq(size))
                   * correct[i] * (Product(size) \div size[i])])

\* C6 amended: the micro and the macro accuracy differ exactly when
\* sum_i (n * size_i - sum(size)) * correct_i / size_i is not 0; for two
\* files of unequal sizes, exactly when their ratios differ; and they
\* differ for (8, 10), (1, 2).
C6_DifferExactlyWhenCorrelated ==
    pc = "done" =>
        /\ MicroEqualsMacro <=> SizeAccuracyCovariance = 0
        /\ (Len(size) = 2 /\ size[1] # size[2]) =>
             (MicroEqualsMacro <=> correct[1] * size[2] = correct[2] * size[1])
        /\ (correct = <<8, 1>> /\ size = <<10, 2>>) => ~MicroEqualsMacro

C6_Witness ==
    /\ pc = "done"
    /\ correct = <<8, 1>>
    /\ size = <<10, 2>>
    /\ ~MicroEqualsMacro

(***************************************************************************)
(* Properties of main (checked under Spec).                                *)
(***************************************************************************)
Failed == err \in {"assert", "decode", "mismatch"}

\* C7: once feature extraction has failed on a row, or the predicted and
\* gold labels of a file differ in length, the run is over: no other file
\* is started, no result is recorded and no accuracy line is reported.
C7_FailureAbortsRun ==
    /\ [](Failed => (reported = <<>> /\ Len(correct) = fileIdx - 1))
    /\ [][Failed => UNCHANGED <<pc, fileIdx, correct, size, reported, evalLog>>]_vars

C7_Witness ==
    /\ err = "mismatch"
    /\ pc = "aborted"
    /\ fileIdx = 1
    /\ numFiles = 2

\* C8: the k-th evaluation is that of file k, done with the vectorizer and
\* the classifier constructed in iteration k and fitted on the train split
\* of file k; results are recorded file by file.
C8_FreshModelPerFile ==
    /\ Len(evalLog) <= fileIdx
    /\ Len(correct) <= Len(evalLog)
    /\ Len(evalLog) <= Len(correct) + 1
    /\ \A k \in 1..Len(evalLog) :
         /\ evalLog[k].file = k
         /\ evalLog[k].vectorizer = [born |-> k, fittedOn |-> k]
         /\ evalLog[k].model = [born |-> k, fittedOn |-> k]
    /\ pc \in {"eval", "predict", "score"} =>
         /\ vectorizer = [born |-> fileIdx, fittedOn |-> fileIdx]
         /\ model = [born |-> fileIdx, fittedOn |-> fileIdx]

C8_Witness == Len(evalLog) = 2 /\ Len(correct) = 2

\* C9: every recorded per-file result has 0 <= correct <= size and
\* size >= 1, so the per-file ratios are defined, and so are both
\* accuracies once a result is recorded.
C9_ResultsWellFormed ==
    /\ Len(correct) = Len(size)
    /\ \A i \in 1..Len(size) :
         /\ 0 <= correct[i]
         /\ correct[i] <= size[i]
         /\ size[i] >= 1
    /\ err = "zerodiv" => size = <<>>

C9_Witness ==
    /\ Len(size) = 2
    /\ size[1] = 2
    /\ correct[1] = 2
    /\ correct[2] = 0

=============================================================================
